---- MODULE Spec2Model ----
(***************************************************************************)
(* Model of help_gen.py (class HelpFileGen): the fingerprinting of the     *)
(* declarations of a parsed module, the change detector, the renderer and  *)
(* the files the generator reads and writes.                               *)
(*                                                                         *)
(* A parsed module is the sequence of its ClassDef / FunctionDef nodes in  *)
(* source (pre-)order; node i carries the index of the declaration whose   *)
(* body holds it (0: the module body, tree.body).                          *)
(***************************************************************************)
EXTENDS Integers, Sequences, FiniteSets, TLC

(* ------------------------------ bounds --------------------------------- *)
MaxNodes == 3
MaxEdits == 1
MaxRuns == 2
MaxDeepNodes == 5

(* --------------------------- value universe ---------------------------- *)
NoneVal == "<None>"
Names == {"run", "Run", "stop"}
Kinds == {"ClassDef", "FunctionDef"}
Docs == {NoneVal, "Say hello."}

(* str.lower() on the identifiers of the model *)
Lower(s) == IF s = "Run" THEN "run" ELSE IF s = "Greeter" THEN "greeter" ELSE s

RECURSIVE Join(_, _)
(* sep.join(parts) *)
Join(parts, sep) ==
  IF Len(parts) = 0 THEN ""
  ELSE IF Len(parts) = 1 THEN parts[1]
  ELSE parts[1] \o sep \o Join(Tail(parts), sep)

(* ast.arguments of a FunctionDef.  An arg is [arg, annotation]; a default *)
(* expression is a constant: its text as ast.unparse writes it, and        *)
(* whether it is a string                                                  *)
Arg(n, t) == [arg |-> n, annotation |-> t]
StrConst(v) == [unparse |-> "'" \o v \o "'", is_str |-> TRUE]
NumConst(v) == [unparse |-> v, is_str |-> FALSE]
NoDefault == [unparse |-> NoneVal, is_str |-> FALSE]
NoArgs ==
  [args |-> <<>>, vararg |-> NoneVal, kwonlyargs |-> <<>>, kwarg |-> NoneVal,
   defaults |-> <<>>, kw_defaults |-> <<>>]
ArgsSelf ==
  [args |-> <<Arg("self", NoneVal)>>, vararg |-> NoneVal, kwonlyargs |-> <<>>,
   kwarg |-> NoneVal, defaults |-> <<>>, kw_defaults |-> <<>>]
ArgsStrDefault ==
  [args |-> <<Arg("self", NoneVal), Arg("name", "str")>>, vararg |-> NoneVal,
   kwonlyargs |-> <<>>, kwarg |-> NoneVal,
   defaults |-> <<StrConst("World")>>, kw_defaults |-> <<>>]
ArgsIntDefault ==
  [args |-> <<Arg("self", NoneVal), Arg("name", "int")>>, vararg |-> NoneVal,
   kwonlyargs |-> <<>>, kwarg |-> NoneVal,
   defaults |-> <<StrConst("World")>>, kw_defaults |-> <<>>]
ArgsKwFirst ==
  [args |-> <<Arg("self", NoneVal)>>, vararg |-> NoneVal,
   kwonlyargs |-> <<Arg("a", NoneVal), Arg("b", NoneVal)>>, kwarg |-> NoneVal,
   defaults |-> <<>>, kw_defaults |-> <<NumConst("1"), NoDefault>>]
ArgsKwSecond ==
  [args |-> <<Arg("self", NoneVal)>>, vararg |-> NoneVal,
   kwonlyargs |-> <<Arg("a", NoneVal), Arg("b", NoneVal)>>, kwarg |-> NoneVal,
   defaults |-> <<>>, kw_defaults |-> <<NoDefault, NumConst("1")>>]
ArgsChoices == {NoArgs, ArgsSelf, ArgsStrDefault, ArgsIntDefault, ArgsKwFirst, ArgsKwSecond}

(* ast.dump / ast.unparse of a constant expression; an annotation is the  *)
(* text ast.unparse gives for it                                           *)
AstDump(e) == "Constant(value=" \o e.unparse \o ")"
AstUnparse(e) == e.unparse
AnnotationText(annotation) == annotation

(* repr() of the dump of e: double quotes when the dump holds a single    *)
(* quote                                                                   *)
DumpRepr(e) ==
  IF e.is_str THEN "\"" \o AstDump(e) \o "\"" ELSE "'" \o AstDump(e) \o "'"

(* str() of the list of the dumps of es *)
DumpListRepr(es) == "[" \o Join([i \in 1..Len(es) |-> DumpRepr(es[i])], ", ") \o "]"

Node(k, n, p) ==
  [kind |-> k, name |-> n, parent |-> p, doc |-> NoneVal, args |-> NoArgs,
   decorator_list |-> <<>>, bases |-> <<>>]

(* ------------------------------ the tree ------------------------------- *)
RECURSIVE IsAncestorOrSelf(_, _, _)
IsAncestorOrSelf(m, a, i) ==
  IF i = 0 THEN FALSE
  ELSE IF a = i THEN TRUE
  ELSE IsAncestorOrSelf(m, a, m[i].parent)

(* pre-order: a node's parent is the module or lies on the path to the     *)
(* node written just before it                                             *)
ValidTree(m) ==
  \A i \in 1..Len(m) :
    \/ m[i].parent = 0
    \/ i > 1 /\ IsAncestorOrSelf(m, m[i].parent, i - 1)

RECURSIVE Depth(_, _)
Depth(m, i) == IF m[i].parent = 0 THEN 1 ELSE 1 + Depth(m, m[i].parent)

RECURSIVE Indices(_, _)
Indices(lo, hi) == IF lo > hi THEN <<>> ELSE <<lo>> \o Indices(lo + 1, hi)

AtDepth(m, d) ==
  LET Test(i) == Depth(m, i) = d IN SelectSeq(Indices(1, Len(m)), Test)

RECURSIVE WalkFrom(_, _)
WalkFrom(m, d) == IF d > Len(m) THEN <<>> ELSE AtDepth(m, d) \o WalkFrom(m, d + 1)

(* a walk of tree.body alone *)
AstWalkTopLevel(m) == AtDepth(m, 1)

(* ast.walk(tree), restricted to the ClassDef / FunctionDef nodes: breadth *)
(* first, children in source order                                         *)
AstWalk(m) == WalkFrom(m, 1)

(* node.body of a declaration p (p = 0: tree.body), in source order *)
Body(m, p) ==
  LET Test(i) == m[i].parent = p IN SelectSeq(Indices(1, Len(m)), Test)

GetDocstring(n) == n.doc
DocOrEmpty(n) == IF GetDocstring(n) = NoneVal THEN "" ELSE GetDocstring(n)

(* --------------------------- signatures -------------------------------- *)
ArgNames(as) == [i \in 1..Len(as) |-> as[i].arg]

NotNone(x) == x # NoDefault

_get_function_signature(a) ==
  LET args == ArgNames(a.args)
      vararg == IF a.vararg # NoneVal THEN "*" \o a.vararg ELSE ""
      kwonlyargs == ArgNames(a.kwonlyargs)
      kwarg == IF a.kwarg # NoneVal THEN "**" \o a.kwarg ELSE ""
      defaults == a.defaults
      kw_defaults == SelectSeq(a.kw_defaults, NotNone)
      sig_parts ==
        (IF Len(args) > 0 THEN <<Join(args, ", ")>> ELSE <<>>)
        \o (IF vararg # "" THEN <<vararg>> ELSE <<>>)
        \o (IF Len(kwonlyargs) > 0 THEN <<"*", Join(kwonlyargs, ", ")>> ELSE <<>>)
        \o (IF kwarg # "" THEN <<kwarg>> ELSE <<>>)
      signature == "(" \o Join(sig_parts, ", ") \o ")"
  IN signature
     \o (IF Len(defaults) > 0 THEN " defaults=" \o DumpListRepr(defaults) ELSE "")
     \o (IF Len(kw_defaults) > 0 THEN " kw_defaults=" \o DumpListRepr(kw_defaults) ELSE "")

(* --------------------------- fingerprints ------------------------------ *)
(* hashlib.sha256(content).hexdigest(): the digest stands for its content  *)
(* (no two contents of the model share a digest)                           *)
Sha256(content) == "sha256(" \o content \o ")"

RECURSIVE MemberContent(_, _)
(* the loop over node.body of a ClassDef: FunctionDef items only *)
MemberContent(m, items) ==
  IF Len(items) = 0 THEN ""
  ELSE LET item == m[Head(items)] IN
       (IF item.kind = "FunctionDef"
        THEN "|" \o item.name \o ":" \o _get_function_signature(item.args)
             \o ":" \o DocOrEmpty(item)
        ELSE "")
       \o MemberContent(m, Tail(items))

_calculate_node_checksum(m, i) ==
  LET node == m[i] IN
  IF node.kind = "ClassDef"
  THEN Sha256("ClassDef:" \o node.name \o ":" \o DocOrEmpty(node) \o ":"
              \o "bases:" \o Join(node.bases, ",") \o ":"
              \o "decorators:" \o Join(node.decorator_list, ",") \o ":"
              \o MemberContent(m, Body(m, i)))
  ELSE Sha256("FunctionDef:" \o node.name \o ":" \o DocOrEmpty(node) \o ":"
              \o "decorators:" \o Join(node.decorator_list, ",") \o ":"
              \o "signature:" \o _get_function_signature(node.args))

(* a dict is a function on its set of keys *)
EmptyDict == [k \in {} |-> ""]
DictSet(d, k, v) == [x \in DOMAIN d \cup {k} |-> IF x = k THEN v ELSE d[x]]
DictGet(d, k) == IF k \in DOMAIN d THEN d[k] ELSE NoneVal

(* the key of a declaration in the fingerprint record *)
NodeName(node) ==
  IF node.kind = "FunctionDef" THEN node.name ELSE "class_" \o node.name

RECURSIVE CollectChecksums(_, _, _)
(* first pass: current_checksums[node_name] = checksum, in walk order *)
CollectChecksums(m, order, acc) ==
  IF Len(order) = 0 THEN acc
  ELSE CollectChecksums(m, Tail(order),
         DictSet(acc, NodeName(m[Head(order)]), _calculate_node_checksum(m, Head(order))))

CurrentChecksums(m) == CollectChecksums(m, AstWalk(m), EmptyDict)

(* the comparison without the test of the key sets *)
NeedsUpdateHashesOnly(current, previous) ==
  \E node_name \in DOMAIN current :
    DictGet(previous, node_name) # current[node_name]

(* the comparison of the current record with the persisted one *)
NeedsUpdate(current, previous) ==
  IF DOMAIN current # DOMAIN previous THEN TRUE
  ELSE \E node_name \in DOMAIN current :
         DictGet(previous, node_name) # current[node_name]

(* ----------------------------- renderer -------------------------------- *)
_get_type_annotation(annotation) ==
  IF annotation = NoneVal THEN "Any" ELSE AnnotationText(annotation)

_format_arg_line(name, type_str, default) ==
  IF default # NoneVal THEN name \o ": " \o type_str \o " = " \o default
  ELSE name \o ": " \o type_str

(* one entry per argument: the parts of the line and the line itself *)
ArgDetail(name, type_str, default) ==
  [name |-> name, default |-> default, line |-> _format_arg_line(name, type_str, default)]

_get_argument_details(a) ==
  LET N == Len(a.args)
      D == Len(a.defaults)
      Positional(i) ==
        ArgDetail(a.args[i].arg, _get_type_annotation(a.args[i].annotation),
                  IF D > 0 /\ i > N - D THEN AstUnparse(a.defaults[i - (N - D)]) ELSE NoneVal)
      KwOnly(i) ==
        ArgDetail(a.kwonlyargs[i].arg, _get_type_annotation(a.kwonlyargs[i].annotation),
                  IF i <= Len(a.kw_defaults) /\ a.kw_defaults[i] # NoDefault
                  THEN AstUnparse(a.kw_defaults[i]) ELSE NoneVal)
  IN [i \in 1..N |-> Positional(i)] \o [i \in 1..Len(a.kwonlyargs) |-> KwOnly(i)]

(* the split of an argument line at ':' and '=' gives back its name and    *)
(* its default                                                             *)
CleanedArg(d) == IF d.default # NoneVal THEN d.name \o "=" \o d.default ELSE d.name

generate_usage_code(class_name, name, usage_args) ==
  LET class_obj == "self." \o Lower(class_name) \o "_obj"
      NotSelf(d) == d.name # "self"
      kept == SelectSeq(usage_args, NotSelf)
      cleaned_args == [i \in 1..Len(kept) |-> CleanedArg(kept[i])]
      call_prefix == IF name = "__init__" THEN class_obj \o "("
                     ELSE class_obj \o "." \o name \o "("
  IN class_obj \o " = " \o class_name \o "\n\n"
     \o (IF Len(cleaned_args) = 0 THEN call_prefix \o ")"
         ELSE IF Len(cleaned_args) = 1 THEN call_prefix \o cleaned_args[1] \o ")"
         ELSE call_prefix \o "\n"
              \o Join([i \in 1..Len(cleaned_args) |-> "    " \o cleaned_args[i]], ",\n")
              \o "\n)")

(* docstring.strip(): the documentation texts of Docs carry no surrounding *)
(* white space                                                             *)
_extract_help_from_docstring(docstring) ==
  IF docstring = NoneVal \/ docstring = "" THEN NoneVal ELSE docstring

ClassAnchor(class_name) == "class-" \o Lower(class_name)
MethodAnchor(class_name, child_name) ==
  "method-" \o Lower(class_name) \o "-" \o Lower(child_name)
(* a function anchor with the prefix of the class anchors *)
FuncAnchorClassPrefix(name) == "class-" \o Lower(name)
FuncAnchor(name) == "func-" \o Lower(name)

Anchor(a) == "<a id=\"" \o a \o "\"></a>\n"
ArgumentsBlock(title, a) ==
  LET det == _get_argument_details(a) IN
  title \o Join([i \in 1..Len(det) |-> "- " \o det[i].line], "\n")
HelpBlock(title, node) ==
  LET help_text == _extract_help_from_docstring(GetDocstring(node)) IN
  IF help_text # NoneVal THEN "\n" \o title \o "\n> " \o help_text \o "\n"
  ELSE "\n" \o title \o "\n> No help provided.\n"

(* an element of help_content: the string appended, and what it renders.  *)
(* The strings are the code's without the back quotes of the Markdown     *)
(* (code spans and fences), which a TLA+ string cannot hold.               *)
Entry(unit, owner, name, anchor, links, text) ==
  [unit |-> unit, owner |-> owner, name |-> name, anchor |-> anchor,
   links |-> links, text |-> text]
Plain(text) == Entry("text", "", "", "", <<>>, text)
Link(name, anchor) == [name |-> name, anchor |-> anchor]
LinkText(l) == "[" \o l.name \o "](#" \o l.anchor \o ")"
LinksLine(links) == Join([i \in 1..Len(links) |-> LinkText(links[i])], " | ")

MethodEntry(class_name, child, args_seperatly) ==
  LET method_anchor == MethodAnchor(class_name, child.name) IN
  Entry("method", class_name, child.name, method_anchor, <<>>,
        Anchor(method_anchor) \o "### Method: " \o child.name \o "\n"
        \o (IF args_seperatly THEN ArgumentsBlock("#### Arguments:\n", child.args) ELSE "")
        \o HelpBlock("#### Help:", child)
        \o "\n#### Usage:\n python\n"
        \o generate_usage_code(class_name, child.name, _get_argument_details(child.args))
        \o "\n\n"
        \o "\n\n[Back to " \o class_name \o "](#" \o ClassAnchor(class_name)
        \o ") or [Classes](#top)\n\n")

FunctionEntry(class_name, node, args_seperatly) ==
  LET func_anchor == FuncAnchor(node.name) IN
  Entry("func", "", node.name, func_anchor, <<>>,
        Anchor(func_anchor) \o "## Function: " \o node.name \o "\n"
        \o (IF args_seperatly THEN ArgumentsBlock("### Arguments:\n", node.args) ELSE "")
        \o HelpBlock("### Help:", node)
        \o "\n### Usage:\npython\n"
        \o generate_usage_code(class_name, node.name, _get_argument_details(node.args))
        \o "\n\n"
        \o "\n[Back to top](#top)\n\n")

(* the section of a class whose method loop does not test the exclusion   *)
(* list                                                                    *)
ClassSectionLinksOnly(m, i, exclusion_list, args_seperatly) ==
  LET class_name == m[i].name
      Shown(c) == m[c].kind = "FunctionDef" /\ m[c].name \notin exclusion_list
      IsMethod(c) == m[c].kind = "FunctionDef"
      shown == SelectSeq(Body(m, i), Shown)
      methods == SelectSeq(Body(m, i), IsMethod)
      method_links ==
        [k \in 1..Len(shown) |->
           Link(m[shown[k]].name, MethodAnchor(class_name, m[shown[k]].name))]
  IN <<Entry("class", "", class_name, ClassAnchor(class_name), <<>>,
             Anchor(ClassAnchor(class_name))),
       Plain("## Class: " \o class_name \o "\n")>>
     \o (IF Len(method_links) > 0
         THEN <<Plain("### Quick Links:\n"),
                Entry("quick_links", class_name, "", "", method_links,
                      LinksLine(method_links)),
                Plain("\n")>>
         ELSE <<>>)
     \o [k \in 1..Len(methods) |-> MethodEntry(class_name, m[methods[k]], args_seperatly)]

(* the section of a top-level class: header, quick links, methods *)
ClassSection(m, i, exclusion_list, args_seperatly) ==
  LET class_name == m[i].name
      Shown(c) == m[c].kind = "FunctionDef" /\ m[c].name \notin exclusion_list
      shown == SelectSeq(Body(m, i), Shown)
      method_links ==
        [k \in 1..Len(shown) |->
           Link(m[shown[k]].name, MethodAnchor(class_name, m[shown[k]].name))]
  IN <<Entry("class", "", class_name, ClassAnchor(class_name), <<>>,
             Anchor(ClassAnchor(class_name))),
       Plain("## Class: " \o class_name \o "\n")>>
     \o (IF Len(method_links) > 0
         THEN <<Plain("### Quick Links:\n"),
                Entry("quick_links", class_name, "", "", method_links,
                      LinksLine(method_links)),
                Plain("\n")>>
         ELSE <<>>)
     \o [k \in 1..Len(shown) |-> MethodEntry(class_name, m[shown[k]], args_seperatly)]

Unbound == "<unbound>"

RECURSIVE SecondPass(_, _, _, _, _, _)
(* second pass over tree.body; class_name is the local variable the class  *)
(* branch assigns and the function branch reads (UnboundLocalError when no *)
(* class branch ran before)                                                *)
SecondPass(m, items, class_name, exclusion_list, args_seperatly, help_content) ==
  IF Len(items) = 0 THEN [raised |-> FALSE, help_content |-> help_content]
  ELSE LET i == Head(items)
           node == m[i]
       IN IF node.kind = "ClassDef"
          THEN SecondPass(m, Tail(items), node.name, exclusion_list, args_seperatly,
                 help_content \o ClassSection(m, i, exclusion_list, args_seperatly))
          ELSE IF node.name \in exclusion_list
          THEN SecondPass(m, Tail(items), class_name, exclusion_list, args_seperatly,
                 help_content)
          ELSE IF class_name = Unbound
          THEN [raised |-> TRUE, help_content |-> help_content]
          ELSE SecondPass(m, Tail(items), class_name, exclusion_list, args_seperatly,
                 help_content \o <<FunctionEntry(class_name, node, args_seperatly)>>)

TableOfContents(m, exclusion_list) ==
  LET IsClass(i) == m[i].kind = "ClassDef"
      IsFunc(i) == m[i].kind = "FunctionDef" /\ m[i].name \notin exclusion_list
      cls == SelectSeq(Body(m, 0), IsClass)
      fns == SelectSeq(Body(m, 0), IsFunc)
      class_anchors == [k \in 1..Len(cls) |-> Link(m[cls[k]].name, ClassAnchor(m[cls[k]].name))]
      func_anchors == [k \in 1..Len(fns) |-> Link(m[fns[k]].name, FuncAnchor(m[fns[k]].name))]
      toc == <<"<a id=\"top\"></a>\n", "## Table of Contents\n">>
             \o (IF Len(class_anchors) > 0
                 THEN <<"### Classes:\n", LinksLine(class_anchors), "\n">> ELSE <<>>)
             \o (IF Len(func_anchors) > 0
                 THEN <<"### Functions:\n", LinksLine(func_anchors), "\n">> ELSE <<>>)
  IN Entry("toc", "", "", "top", class_anchors \o func_anchors, Join(toc, "\n"))

(* the renderer: second pass, then the table of contents in front *)
Render(m, exclusion_list, args_seperatly) ==
  LET r == SecondPass(m, Body(m, 0), Unbound, exclusion_list, args_seperatly, <<>>) IN
  IF r.raised THEN r
  ELSE IF Len(r.help_content) > 0
  THEN [raised |-> FALSE,
        help_content |-> <<TableOfContents(m, exclusion_list)>> \o r.help_content]
  ELSE r

(* "\n\n".join(help_content) *)
Document(help_content) ==
  Join([i \in 1..Len(help_content) |-> help_content[i].text], "\n\n")

(* ----------------------------- pipeline -------------------------------- *)
(* the test without os.path.exists(self.output_file) *)
UpToDateWhateverOutput(needs_update, output_exists) == ~needs_update

(* the test that ends a run before the renderer *)
UpToDate(needs_update, output_exists) == ~needs_update /\ output_exists

(* one call of _generate_help_content: the fingerprint record, the         *)
(* decision, what happened, the content returned, and whether              *)
(* _save_checksums(current_checksums) was reached                          *)
_generate_help_content(src, previous_checksums, output_exists, exclusion_list, args_seperatly) ==
  LET current_checksums == CurrentChecksums(src)
      needs_update == NeedsUpdate(current_checksums, previous_checksums)
      r == Render(src, exclusion_list, args_seperatly)
      Result(outcome, help_content, saved) ==
        [current_checksums |-> current_checksums, needs_update |-> needs_update,
         outcome |-> outcome, help_content |-> help_content, saved |-> saved]
  IN IF UpToDate(needs_update, output_exists) THEN Result("skipped", <<>>, TRUE)
     ELSE IF r.raised THEN Result("raised", <<>>, FALSE)
     ELSE Result("rendered", r.help_content, TRUE)

(* ------------------------------- state --------------------------------- *)
VARIABLES
  source,          \* the module at module_path, parsed
  checksum_file,   \* .jsondata/<module>.checksums.json: [exists, data]
  output_file,     \* the help file: [exists, text]
  exclusion_file,  \* .jsondata/exclude_help_ast.json: [exists, data]
  self,            \* the HelpFileGen object the caller holds: whether one was
                   \* constructed, and its fields overwrite, args_seperatly
                   \* and exclusion_list as __init__ set them
  run,             \* what the latest call of generate_help_file did
  hist             \* bookkeeping: edits and runs so far, the edit pending
                   \* since the checksum file was last written, and whether
                   \* every run so far had overwrite enabled and used the
                   \* exclusion list and the flag of the first run

vars == <<source, checksum_file, output_file, exclusion_file, self, run, hist>>

PlainNodes == {Node(k, n, p) : k \in Kinds, n \in Names, p \in 0..(MaxNodes - 1)}
Modules ==
  {m \in UNION {[1..n -> PlainNodes] : n \in 0..MaxNodes} : ValidTree(m)}

(* class Greeter with __init__(self, name: str = 'World') and greet(self)  *)
Greeter ==
  <<Node("ClassDef", "Greeter", 0),
    [Node("FunctionDef", "__init__", 1) EXCEPT !.args = ArgsStrDefault],
    [Node("FunctionDef", "greet", 1) EXCEPT !.args = ArgsSelf, !.doc = "Say hello."]>>

ExclusionChoices == {{}, {"run"}}

NoFile == [exists |-> FALSE, data |-> EmptyDict]
NoOutput == [exists |-> FALSE, text |-> ""]
NoPrev ==
  [valid |-> FALSE, source |-> <<>>, exclusion_list |-> {},
   current_checksums |-> EmptyDict]
NoPending == [n |-> 0, op |-> "none", idx |-> 0]
NoRun ==
  [outcome |-> "none", source |-> <<>>, exclusion_list |-> {}, args_seperatly |-> FALSE,
   previous_checksums |-> EmptyDict, output_existed |-> FALSE, output_before |-> "",
   current_checksums |-> EmptyDict, needs_update |-> FALSE, help_content |-> <<>>,
   prev |-> NoPrev, pending |-> NoPending, base_valid |-> FALSE, base_source |-> <<>>]

NoExclusionFile == [exists |-> FALSE, data |-> {}]
NoObject ==
  [constructed |-> FALSE, overwrite |-> TRUE, args_seperatly |-> FALSE,
   exclusion_list |-> {}]

Init ==
  /\ source \in Modules \cup {Greeter}
  /\ checksum_file = NoFile
  /\ output_file = NoOutput
  /\ exclusion_file = NoExclusionFile
  /\ self = NoObject
  /\ run = NoRun
  /\ hist = [edits |-> 0, runs |-> 0, pending |-> NoPending,
             base_valid |-> FALSE, base_source |-> <<>>, steady |-> TRUE]

(* _load_exclusion_list: the list in the file, [] when there is no file *)
_load_exclusion_list(file) == IF file.exists THEN file.data ELSE {}

(* _load_checksums *)
_load_checksums(file) == IF file.exists THEN file.data ELSE EmptyDict

Analysed(r) == r.outcome \in {"skipped", "rendered", "raised"}

(* generate_help_file on the object me: the fields it reads are those of   *)
(* the object, as __init__ set them                                        *)
generate_help_file(me) ==
  LET prev == IF Analysed(run)
              THEN [valid |-> TRUE, source |-> run.source,
                    exclusion_list |-> run.exclusion_list,
                    current_checksums |-> run.current_checksums]
              ELSE run.prev
      same == run = NoRun \/ (/\ run.exclusion_list = me.exclusion_list
                              /\ run.args_seperatly = me.args_seperatly)
      steady == hist.steady /\ me.overwrite /\ same
      Seen(outcome, g) ==
        [outcome |-> outcome, source |-> source, exclusion_list |-> me.exclusion_list,
         args_seperatly |-> me.args_seperatly,
         previous_checksums |-> _load_checksums(checksum_file),
         output_existed |-> output_file.exists, output_before |-> output_file.text,
         current_checksums |-> g.current_checksums, needs_update |-> g.needs_update,
         help_content |-> g.help_content,
         prev |-> prev, pending |-> hist.pending, base_valid |-> hist.base_valid,
         base_source |-> hist.base_source]
  IN IF me.overwrite \/ ~output_file.exists
     THEN \E g \in {_generate_help_content(source, _load_checksums(checksum_file),
                     output_file.exists, me.exclusion_list, me.args_seperatly)} :
             /\ checksum_file' = IF g.saved
                                 THEN [exists |-> TRUE, data |-> g.current_checksums]
                                 ELSE checksum_file
             /\ output_file' = IF Len(g.help_content) > 0
                               THEN [exists |-> TRUE, text |-> Document(g.help_content)]
                               ELSE output_file
             /\ run' = Seen(g.outcome, g)
             /\ hist' = IF g.saved
                        THEN [hist EXCEPT !.runs = @ + 1, !.pending = NoPending,
                                          !.base_valid = TRUE, !.base_source = source,
                                          !.steady = steady]
                        ELSE [hist EXCEPT !.runs = @ + 1, !.steady = steady]
     ELSE /\ UNCHANGED <<checksum_file, output_file>>
          /\ run' = Seen("declined", NoRun)
          /\ hist' = [hist EXCEPT !.runs = @ + 1, !.steady = steady]

(* obj = HelpFileGen(module_path, overwrite=overwrite,                     *)
(* include_args=include_args): the fields are set, the exclusion file is   *)
(* read, or written as [] when there is none, and generate_help_file is    *)
(* called; when that call raises, the constructor raises and the caller    *)
(* keeps the object it had                                                 *)
__init__(overwrite, include_args) ==
  /\ hist.runs < MaxRuns
  /\ LET me == [constructed |-> TRUE, overwrite |-> overwrite,
                args_seperatly |-> include_args,
                exclusion_list |-> _load_exclusion_list(exclusion_file)]
     IN /\ generate_help_file(me)
        /\ self' = IF run'.outcome = "raised" THEN self ELSE me
  /\ exclusion_file' = [exists |-> TRUE, data |-> _load_exclusion_list(exclusion_file)]
  /\ UNCHANGED source

(* obj.generate_help_file() on the object the caller holds *)
CallGenerateHelpFile ==
  /\ hist.runs < MaxRuns
  /\ self.constructed
  /\ generate_help_file(self)
  /\ UNCHANGED <<source, exclusion_file, self>>

(* ---------------- the user edits the module between runs -------------- *)
Edited(op, i) ==
  hist' = [hist EXCEPT !.edits = @ + 1,
                       !.pending = [n |-> @.n + 1, op |-> op, idx |-> i]]

OnLastPath(m, p) == p = 0 \/ (Len(m) > 0 /\ IsAncestorOrSelf(m, p, Len(m)))

(* a new declaration is written at the end of the body of p *)
AddDecl(k, n, p) ==
  /\ hist.edits < MaxEdits
  /\ 0 < hist.runs /\ hist.runs < MaxRuns
  /\ Len(source) < MaxNodes
  /\ OnLastPath(source, p)
  /\ source' = Append(source, Node(k, n, p))
  /\ Edited("add", Len(source) + 1)
  /\ UNCHANGED <<checksum_file, output_file, exclusion_file, self, run>>

(* a declaration with an empty body is deleted *)
RemoveDecl(i) ==
  /\ hist.edits < MaxEdits
  /\ 0 < hist.runs /\ hist.runs < MaxRuns
  /\ i \in 1..Len(source)
  /\ \A j \in 1..Len(source) : source[j].parent # i
  /\ source' = [j \in 1..(Len(source) - 1) |->
                  LET old == IF j < i THEN source[j] ELSE source[j + 1] IN
                  [old EXCEPT !.parent = IF @ > i THEN @ - 1 ELSE @]]
  /\ Edited("remove", i)
  /\ UNCHANGED <<checksum_file, output_file, exclusion_file, self, run>>

SetDoc(i, d) ==
  /\ hist.edits < MaxEdits
  /\ 0 < hist.runs /\ hist.runs < MaxRuns
  /\ i \in 1..Len(source)
  /\ source[i].doc # d
  /\ source' = [source EXCEPT ![i].doc = d]
  /\ Edited("doc", i)
  /\ UNCHANGED <<checksum_file, output_file, exclusion_file, self, run>>

SetArgs(i, a) ==
  /\ hist.edits < MaxEdits
  /\ 0 < hist.runs /\ hist.runs < MaxRuns
  /\ i \in 1..Len(source)
  /\ source[i].kind = "FunctionDef"
  /\ source[i].args # a
  /\ source' = [source EXCEPT ![i].args = a]
  /\ Edited("args", i)
  /\ UNCHANGED <<checksum_file, output_file, exclusion_file, self, run>>

(* ------------------- the user edits the other files -------------------- *)
(* .jsondata/exclude_help_ast.json is written with a list e other than    *)
(* the one a construction would load now                                   *)
SetExclusion(e) ==
  /\ hist.runs < MaxRuns
  /\ e # _load_exclusion_list(exclusion_file)
  /\ exclusion_file' = [exists |-> TRUE, data |-> e]
  /\ UNCHANGED <<source, checksum_file, output_file, self, run, hist>>

Next ==
  \/ \E overwrite \in BOOLEAN, include_args \in BOOLEAN : __init__(overwrite, include_args)
  \/ CallGenerateHelpFile
  \/ \E k \in Kinds, n \in Names, p \in 0..MaxNodes : AddDecl(k, n, p)
  \/ \E i \in 1..MaxNodes : RemoveDecl(i)
  \/ \E i \in 1..MaxNodes, d \in Docs : SetDoc(i, d)
  \/ \E i \in 1..MaxNodes, a \in ArgsChoices : SetArgs(i, a)
  \/ \E e \in ExclusionChoices : SetExclusion(e)

Spec == Init /\ [][Next]_vars

(* ------------- modules with a class nested within a class -------------- *)
(* class_run is the name of a function and the key of a class named run *)
DeepNames == {"run", "class_run"}

(* every module of S, and every module of S with one more declaration      *)
(* written at its end                                                      *)
OneMore(S) ==
  S \cup {Append(m, Node(k, n, p)) :
            m \in S, k \in Kinds, n \in DeepNames, p \in 0..(MaxDeepNodes - 1)}

RECURSIVE Grown(_, _)
Grown(S, n) == IF n = 0 THEN S ELSE Grown(OneMore(S), n - 1)

(* class Run, a class in its body, a method of the nested class, and up to *)
(* MaxDeepNodes - 3 declarations more                                      *)
DeepModules ==
  {m \in Grown({<<Node("ClassDef", "Run", 0), Node("ClassDef", b, 1),
                   Node("FunctionDef", f, 2)>> : b, f \in DeepNames},
               MaxDeepNodes - 3) : ValidTree(m)}

(* the argument lists an edit of these modules writes *)
DeepArgsChoices == {ArgsSelf, ArgsKwFirst}

InitDeep ==
  /\ source \in DeepModules
  /\ checksum_file = NoFile
  /\ output_file = NoOutput
  /\ exclusion_file = NoExclusionFile
  /\ self = NoObject
  /\ run = NoRun
  /\ hist = [edits |-> 0, runs |-> 0, pending |-> NoPending,
             base_valid |-> FALSE, base_source |-> <<>>, steady |-> TRUE]

NextDeep ==
  \/ \E overwrite \in BOOLEAN, include_args \in BOOLEAN : __init__(overwrite, include_args)
  \/ CallGenerateHelpFile
  \/ \E i \in 1..MaxDeepNodes, d \in Docs : SetDoc(i, d)
  \/ \E i \in 1..MaxDeepNodes, a \in DeepArgsChoices : SetArgs(i, a)

SpecDeep == InitDeep /\ [][NextDeep]_vars

(* ------------------------------ claims --------------------------------- *)
Current == run.current_checksums
Previous == run.previous_checksums

(* C1: the decision of a run is true exactly when the key sets of the      *)
(* current and the previous record differ or a key of both has two         *)
(* different hashes                                                        *)
C1_Decision ==
  Analysed(run) =>
    (run.needs_update <=>
       \/ DOMAIN Current # DOMAIN Previous
       \/ \E k \in DOMAIN Current \cap DOMAIN Previous : Current[k] # Previous[k])

(* a run that found the same keys and a changed hash *)
C1_Witness ==
  /\ Analysed(run)
  /\ run.needs_update
  /\ DOMAIN Current = DOMAIN Previous
  /\ DOMAIN Current # {}

(* C2: after every run that parsed the module, the checksum file holds the *)
(* record computed in that run                                             *)
C2_AlwaysPersisted ==
  Analysed(run) => checksum_file.exists /\ checksum_file.data = Current

(* C3: no change and an existing output: the renderer does not run, the    *)
(* run returns nothing and the output file is left as it was; no output    *)
(* file: the renderer runs whatever the comparison says                    *)
C3_ShortCircuit ==
  Analysed(run) =>
    /\ (~run.needs_update /\ run.output_existed) =>
         /\ run.outcome = "skipped"
         /\ run.help_content = <<>>
         /\ output_file = [exists |-> TRUE, text |-> run.output_before]
    /\ ~run.output_existed => run.outcome \in {"rendered", "raised"}

(* a run that skipped the renderer *)
C3_Witness ==
  /\ run.outcome = "skipped"
  /\ ~run.needs_update
  /\ run.output_existed
  /\ Len(run.source) > 0

(* the run before analysed the very same module *)
SecondRunOnSameSource == Analysed(run) /\ run.prev.valid /\ run.prev.source = run.source

(* C4: a second run on an unchanged module decides needs_update = FALSE    *)
(* and leaves the persisted record as the first run left it                *)
C4_Idempotent ==
  SecondRunOnSameSource =>
    /\ ~run.needs_update
    /\ _load_checksums(checksum_file) = Previous

(* the checksum file was written by a run and exactly one edit of kind op  *)
(* was made to the module since                                            *)
OneEditSinceSave(ops) ==
  /\ Analysed(run)
  /\ run.base_valid
  /\ run.pending.n = 1
  /\ run.pending.op \in ops

(* no two declarations of one body have the same name *)
UniqueInScope(m) ==
  \A i, j \in 1..Len(m) : (i # j /\ m[i].parent = m[j].parent) => m[i].name # m[j].name

(* C5: one declaration removed or added since the record was persisted    *)
(* makes the next run decide needs_update = TRUE, also when a declaration  *)
(* of another body has its name                                            *)
C5_MembershipChange ==
  ( /\ OneEditSinceSave({"add", "remove"})
    /\ UniqueInScope(run.source)
    /\ UniqueInScope(run.base_source) )
  => run.needs_update

(* C6: the record of a run has one entry per declaration of the module,    *)
(* also when declarations of different bodies share a name                 *)
C6_UniqueKeys ==
  (Analysed(run) /\ UniqueInScope(run.source))
  => Cardinality(DOMAIN Current) = Len(run.source)

(* C7: a parameter list edited in its order, kinds, names, annotations or  *)
(* defaults gets another signature string                                  *)
C7_SignatureSensitive ==
  OneEditSinceSave({"args"}) =>
    _get_function_signature(run.source[run.pending.idx].args)
      # _get_function_signature(run.base_source[run.pending.idx].args)

Excluded(content, exclusion) ==
  \A k \in 1..Len(content) :
    /\ content[k].unit = "method" => content[k].name \notin exclusion
    /\ content[k].unit = "quick_links" =>
         \A l \in 1..Len(content[k].links) : content[k].links[l].name \notin exclusion

(* C8: no excluded method is in the quick links or in the body of the      *)
(* rendered document, and the record of a run on an unchanged module is    *)
(* the record of the run before, whatever the two exclusion lists          *)
C8_ExclusionFrame ==
  Analysed(run) =>
    /\ Excluded(run.help_content, run.exclusion_list)
    /\ SecondRunOnSameSource => Current = run.prev.current_checksums

(* a render of a class with a method that was excluded after the run       *)
(* before                                                                  *)
C8_Witness ==
  /\ run.outcome = "rendered"
  /\ SecondRunOnSameSource
  /\ run.prev.exclusion_list = {}
  /\ run.exclusion_list = {"run"}
  /\ \E i \in 1..Len(run.source) :
       /\ run.source[i].kind = "FunctionDef" /\ run.source[i].name = "run"
       /\ run.source[i].parent # 0
       /\ run.source[run.source[i].parent].kind = "ClassDef"
       /\ run.source[run.source[i].parent].parent = 0
  /\ "run" \in DOMAIN Current

(* the rendered units of a document: classes, methods, functions *)
Units(content) == {k \in 1..Len(content) : content[k].unit \in {"class", "method", "func"}}
QualifiedName(e) == <<e.unit, e.owner, e.name>>
LoweredName(e) == <<e.unit, Lower(e.owner), Lower(e.name)>>

(* C9 as stated: two rendered units whose names differ in any way have     *)
(* different anchors                                                       *)
C9_AnchorsUnique ==
  Analysed(run) =>
    \A i, j \in Units(run.help_content) :
      QualifiedName(run.help_content[i]) # QualifiedName(run.help_content[j])
        => run.help_content[i].anchor # run.help_content[j].anchor

(* C9: two rendered units of different kinds, or whose lower-cased names   *)
(* differ, have different anchors                                          *)
C9_AnchorsUniqueUpToCase ==
  Analysed(run) =>
    \A i, j \in Units(run.help_content) :
      LoweredName(run.help_content[i]) # LoweredName(run.help_content[j])
        => run.help_content[i].anchor # run.help_content[j].anchor

(* a document with two methods of one class whose lower-cased names differ *)
C9_Witness ==
  /\ run.outcome = "rendered"
  /\ \E i, j \in Units(run.help_content) :
       /\ run.help_content[i].unit = "method" /\ run.help_content[j].unit = "method"
       /\ run.help_content[i].owner = run.help_content[j].owner
       /\ Lower(run.help_content[i].name) # Lower(run.help_content[j].name)

(* node i is a method of a class that is nested in a class *)
Deep(m, i) ==
  /\ m[i].kind = "FunctionDef"
  /\ m[i].parent # 0
  /\ m[m[i].parent].kind = "ClassDef"
  /\ m[m[i].parent].parent # 0
  /\ m[m[m[i].parent].parent].kind = "ClassDef"

DeepEdit == OneEditSinceSave({"doc", "args"}) /\ Deep(run.source, run.pending.idx)
Outer(m, i) == m[m[i].parent].parent
MemberText(n) == <<_get_function_signature(n.args), DocOrEmpty(n)>>
(* ast.walk reaches j after i: j lies deeper, or as deep and further down *)
WalkedAfter(m, i, j) ==
  \/ Depth(m, j) > Depth(m, i)
  \/ Depth(m, j) = Depth(m, i) /\ j > i

(* the record entry under the key of i is the fingerprint of i: no         *)
(* declaration that ast.walk reaches later has the key of i                *)
KeepsItsKey(m, i) ==
  \A j \in 1..Len(m) : WalkedAfter(m, i, j) => NodeName(m[j]) # NodeName(m[i])

(* C10 as stated: the documentation or the signature of a method of a      *)
(* nested class is edited, the fingerprint of the enclosing class stays    *)
(* and the next run decides needs_update = FALSE                           *)
C10_DeepEditUndetected ==
  DeepEdit =>
    /\ _calculate_node_checksum(run.source, Outer(run.source, run.pending.idx))
         = _calculate_node_checksum(run.base_source, Outer(run.source, run.pending.idx))
    /\ ~run.needs_update

(* C10: the fingerprint of the enclosing class stays; when the edit        *)
(* changed the signature string or the documentation, the next run decides *)
(* needs_update = TRUE exactly when the record entry of the method or the  *)
(* one of the nested class is its own fingerprint, that is, when ast.walk  *)
(* reaches no declaration of the same key after it                         *)
C10_DeepEditDetected ==
  DeepEdit =>
    /\ _calculate_node_checksum(run.source, Outer(run.source, run.pending.idx))
         = _calculate_node_checksum(run.base_source, Outer(run.source, run.pending.idx))
    /\ MemberText(run.source[run.pending.idx])
         # MemberText(run.base_source[run.pending.idx])
       => ( run.needs_update <=>
              \/ KeepsItsKey(run.source, run.pending.idx)
              \/ KeepsItsKey(run.source, run.source[run.pending.idx].parent) )

(* a run after the documentation of a method of a nested class was        *)
(* edited: a declaration walked later has the key of the nested class, the *)
(* method keeps its own, and the run decides to regenerate                 *)
C10_Witness ==
  /\ DeepEdit
  /\ run.pending.op = "doc"
  /\ KeepsItsKey(run.source, run.pending.idx)
  /\ ~KeepsItsKey(run.source, run.source[run.pending.idx].parent)
  /\ run.needs_update
  /\ run.outcome = "rendered"

(* the document the renderer gives for the module, the exclusion list and  *)
(* the flag of the latest run                                              *)
RenderedNow == Render(run.source, run.exclusion_list, run.args_seperatly)

(* C11: overwrite enabled in every run, one exclusion list and one flag:   *)
(* when a run reports no changes and skips the renderer, the output file   *)
(* holds the document the renderer gives for the module as it is now       *)
C11_SkippedMeansCurrent ==
  (run.outcome = "skipped" /\ hist.steady /\ ~RenderedNow.raised)
  => output_file = [exists |-> TRUE, text |-> Document(RenderedNow.help_content)]

====
